---- MODULE Spec2Model ----
(***************************************************************************)
(* A model of the EPC scraper: the monitoring tracker (load_state,         *)
(* save_state, detect_changes), deduplicate_records, crawl_full, the       *)
(* rating check of validate_epc_record, normalize_record, the monitoring   *)
(* runs of run_from_config, and main with its exit codes.                  *)
(*                                                                         *)
(* Python strings are sequences of code points (<<97>> is "a"), so that    *)
(* sorted(), str.strip(), str.upper() and str.split() are computed the way *)
(* Python computes them.  Python's None is the sequence None below, which  *)
(* is no string.                                                           *)
(***************************************************************************)
EXTENDS Integers, Sequences, FiniteSets, TLC

VARIABLES
    pc,               \* where the modelled call or run stands
    state_file,       \* content of the monitoring state file on disk
    ids,              \* argument of save_state
    loaded,           \* outcome of load_state: [exc, ids]
    all_records,      \* crawl_full's all_records
    records,          \* the records handed to deduplicate_records / detect_changes
    previous_ids,     \* load_state's result as used by the run / detect_changes
    new_records,      \* detect_changes: first result
    removed_records,  \* detect_changes: second result
    updated_id_set,   \* detect_changes: third result
    output_records,   \* what the run hands to export_all
    record,           \* argument of validate_epc_record
    validation,       \* outcome of validate_epc_record: [exc, is_valid, errors]
    listing_urls,     \* crawl_full's listing_urls
    url_idx,          \* position of crawl_full's outer loop
    certificate_urls, \* parse_listing_page's result for the current listing
    cert_idx,         \* position of crawl_full's inner loop
    requests,         \* every URL handed to EPCParser._request, in order
    fetch_log,        \* per request: what the fetch and the try block came to
    run_no,           \* number of runs of run_from_config started
    monitoring_mode,  \* run_from_config's monitoring_mode
    history,          \* the IDs finished runs exported as [new, removed]
    args,             \* main's args, as parse_args gave them
    exit_code,        \* the exit status of main's process, -1 while it runs
    events            \* what run_from_config has done so far, in order

vars == <<pc, state_file, ids, loaded, all_records, records, previous_ids,
          new_records, removed_records, updated_id_set, output_records,
          record, validation, listing_urls, url_idx, certificate_urls,
          cert_idx, requests, fetch_log, run_no, monitoring_mode, history,
          args, exit_code, events>>

trackerVars == <<state_file, ids, loaded, previous_ids, new_records,
                 removed_records, updated_id_set, output_records>>
crawlVars == <<listing_urls, url_idx, certificate_urls, cert_idx, requests,
               fetch_log, all_records>>
validateVars == <<record, validation>>
runVars == <<run_no, monitoring_mode, history, args, exit_code, events>>

-----------------------------------------------------------------------------
(* Bounds of the model.                                                    *)

MaxRecords == 3      \* longest list of records handed to a function
MaxJsonList == 2     \* longest JSON list in a state file
MaxIdArgs == 3       \* longest iterable handed to save_state
MaxRuns == 3         \* runs of run_from_config in a row
MaxCrawled == 2      \* records a run's crawl returns
MaxListings == 2     \* listing URLs of a crawl
MaxRatingLen == 3    \* longest rating string

-----------------------------------------------------------------------------
(* Python values.                                                          *)

\* Python's None: a sequence that is no string (code points are >= 0).
None == <<-1>>

\* Python's True and False where a record field holds them beside None.
PyTrue == <<-2>>
PyFalse == <<-3>>

\* bool(v) is False for None and for the empty string.
Falsy(v) == v = None \/ v = <<>>

Range(s) == {s[k] : k \in DOMAIN s}

SeqsUpTo(S, n) == UNION {[1..k -> S] : k \in 0..n}

\* Python's < on str: lexicographic by code point.
RECURSIVE StrLess(_, _)
StrLess(s, t) ==
    IF t = <<>> THEN FALSE
    ELSE IF s = <<>> THEN TRUE
    ELSE IF s[1] # t[1] THEN s[1] < t[1]
    ELSE StrLess(Tail(s), Tail(t))

\* sorted(S) for a set of strings.
RECURSIVE Sorted(_)
Sorted(S) ==
    IF S = {} THEN <<>>
    ELSE LET m == CHOOSE x \in S : \A y \in S : x = y \/ StrLess(x, y)
         IN  <<m>> \o Sorted(S \ {m})

\* The decimal digits of a natural number, as code points.
RECURSIVE Digits(_)
Digits(n) ==
    IF n < 10 THEN <<48 + n>> ELSE Digits(n \div 10) \o <<48 + (n % 10)>>

-----------------------------------------------------------------------------
(* JSON documents.  Every value has the same four fields: t (its type), s *)
(* (the payload of a scalar: a string's code points, <<n>> for a number),  *)
(* items (a list's elements) and members (an object's members, each        *)
(* [k |-> key, val |-> value]).                                            *)

JNull == [t |-> "null", s |-> <<>>, items |-> <<>>, members |-> <<>>]
JInt(n) == [t |-> "int", s |-> <<n>>, items |-> <<>>, members |-> <<>>]
JStr(str) == [t |-> "str", s |-> str, items |-> <<>>, members |-> <<>>]
JList(elems) == [t |-> "list", s |-> <<>>, items |-> elems, members |-> <<>>]
JObj(mems) == [t |-> "obj", s |-> <<>>, items |-> <<>>, members |-> mems]

KeyIds == <<105, 100, 115>>      \* "ids"
KeyOther == <<120>>              \* "x"

\* "ids" in data
HasKey(obj, key) == \E m \in DOMAIN obj.members : obj.members[m].k = key
\* data["ids"]
Member(obj, key) ==
    obj.members[CHOOSE m \in DOMAIN obj.members : obj.members[m].k = key].val

\* str(x) for what json.load returns as a scalar.
Str(x) ==
    CASE x.t = "str" -> x.s
      [] x.t = "int" -> Digits(x.s[1])
      [] x.t = "null" -> <<78, 111, 110, 101>>      \* "None"

\* Whether `for x in value` raises TypeError.
NotIterable(j) == j.t \in {"null", "int"}

\* {str(x) for x in value}: a list gives its elements, a str its characters,
\* a dict its keys.
StrOfEach(j) ==
    CASE j.t = "list" -> {Str(j.items[n]) : n \in DOMAIN j.items}
      [] j.t = "str" -> {<<j.s[n]>> : n \in DOMAIN j.s}
      [] j.t = "obj" -> {j.members[n].k : n \in DOMAIN j.members}

-----------------------------------------------------------------------------
(* The state file.  kind: "absent" (path.exists() is false), "json"        *)
(* (json.load returns data), "malformed" (json.load raises                 *)
(* JSONDecodeError), "unreadable" (the path exists and opening or decoding *)
(* it raises: a directory, no permission, bytes that are not UTF-8).       *)

Absent == [kind |-> "absent", data |-> JNull]
Malformed == [kind |-> "malformed", data |-> JNull]
Unreadable == [kind |-> "unreadable", data |-> JNull]
JsonFile(j) == [kind |-> "json", data |-> j]

Returned(S) == [exc |-> "none", ids |-> S]
Raised(e) == [exc |-> e, ids |-> {}]

\* A plausible slip: of the "ids" list only the first element is read back.
load_state_first_only(file) ==
    IF file.kind = "json" /\ file.data.t = "obj" /\ HasKey(file.data, KeyIds)
       /\ Member(file.data, KeyIds).t = "list"
    THEN LET l == Member(file.data, KeyIds).items
         IN  Returned(IF l = <<>> THEN {} ELSE {Str(l[1])})
    ELSE Returned({})

load_state(file) ==
    IF file.kind = "absent" THEN Returned({})
    ELSE IF file.kind = "unreadable" THEN Raised("OSError")
    ELSE IF file.kind = "malformed" THEN Returned({})
    ELSE LET data == file.data
         IN  IF data.t = "list" THEN Returned(StrOfEach(data))
             ELSE IF data.t = "obj" /\ HasKey(data, KeyIds)
                  THEN IF NotIterable(Member(data, KeyIds))
                       THEN Raised("TypeError")
                       ELSE Returned(StrOfEach(Member(data, KeyIds)))
             ELSE Returned({})

\* save_state's file: {"ids": sorted(set(ids))}.
save_state(id_args) ==
    LET sorted_ids == Sorted(Range(id_args))
    IN  JsonFile(JObj(<<[k |-> KeyIds,
                         val |-> JList([n \in DOMAIN sorted_ids |->
                                            JStr(sorted_ids[n])])]>>))

-----------------------------------------------------------------------------
(* detect_changes.  A record is [id |-> ..., url |-> ...]; rec.get("id")   *)
(* of a record without the key is None, so the key's absence is id = None. *)

\* A plausible slip: every record with an id is new.
IsNewAlways(rec_id, prev) == TRUE
IsNew(rec_id, prev) == rec_id \notin prev

\* A plausible slip: the difference the wrong way round.
RemovedIdsReversed(prev, current_ids) == current_ids \ prev
RemovedIds(prev, current_ids) == prev \ current_ids

\* A plausible slip: the state is replaced by the current IDs.
UpdatedIdSetCurrentOnly(prev, current_ids) == current_ids
UpdatedIdSet(prev, current_ids) == prev \cup current_ids

\* The loop over current_records: [current_ids, new_records].
RECURSIVE DetectLoop(_, _, _, _)
DetectLoop(recs, prev, current_ids, new) ==
    IF recs = <<>> THEN [current_ids |-> current_ids, new_records |-> new]
    ELSE LET rec == Head(recs)
             rec_id == rec.id
         IN  IF Falsy(rec_id)
             THEN DetectLoop(Tail(recs), prev, current_ids, new)
             ELSE DetectLoop(Tail(recs), prev, current_ids \cup {rec_id},
                             IF IsNew(rec_id, prev) THEN Append(new, rec)
                                                    ELSE new)

RemovedStub(epc_id) == [id |-> epc_id, removed |-> TRUE]

detect_changes(current_records, prev) ==
    LET loop == DetectLoop(current_records, prev, {}, <<>>)
        removed_ids == Sorted(RemovedIds(prev, loop.current_ids))
    IN  [new_records |-> loop.new_records,
         removed_records |-> [n \in DOMAIN removed_ids |->
                                  RemovedStub(removed_ids[n])],
         updated_id_set |-> UpdatedIdSet(prev, loop.current_ids)]

-----------------------------------------------------------------------------
(* Values the variables hold while a specification does not use them.      *)

TrackerIdle ==
    /\ state_file = Absent
    /\ ids = <<>>
    /\ loaded = Returned({})
    /\ previous_ids = {}
    /\ new_records = <<>>
    /\ removed_records = <<>>
    /\ updated_id_set = {}
    /\ output_records = <<>>

CrawlIdle ==
    /\ listing_urls = <<>>
    /\ url_idx = 0
    /\ certificate_urls = <<>>
    /\ cert_idx = 0
    /\ requests = <<>>
    /\ fetch_log = <<>>
    /\ all_records = <<>>

IdleRecord ==
    [url |-> None, id |-> None, postCode |-> None, address |-> None,
     rating |-> None, validtillDate |-> None, expired |-> None]

ValidateIdle ==
    /\ record = IdleRecord
    /\ validation = [exc |-> "none", is_valid |-> TRUE, errors |-> <<>>]

RunIdle ==
    /\ run_no = 0
    /\ monitoring_mode = FALSE
    /\ history = [new |-> {}, removed |-> {}]
    /\ args = [full |-> FALSE, monitor |-> FALSE]
    /\ exit_code = -1
    /\ events = <<>>

-----------------------------------------------------------------------------
(* StateSpec: load_state and save_state on one state file.                 *)

IdA == <<97>>          \* "a"
IdB == <<98>>          \* "b"
IdAB == <<97, 98>>     \* "ab"
IdUpperB == <<66>>     \* "B"
Ids == {IdA, IdB, IdAB, IdUpperB}

JsonScalars == {JStr(IdA), JStr(IdB), JInt(7), JNull}
JsonLists == {JList(l) : l \in SeqsUpTo(JsonScalars, MaxJsonList)}
JsonObjects ==
    {JObj(<<[k |-> KeyIds, val |-> j]>>) :
        j \in JsonLists \cup {JInt(7), JNull, JStr(IdAB),
                              JObj(<<[k |-> IdA, val |-> JNull]>>)}}
    \cup {JObj(<<>>), JObj(<<[k |-> KeyOther, val |-> JList(<<JStr(IdA)>>)]>>)}
JsonDocuments == JsonLists \cup JsonObjects \cup {JInt(7), JStr(IdA), JNull}

StateFiles ==
    {Absent, Malformed, Unreadable} \cup {JsonFile(j) : j \in JsonDocuments}

StateInit ==
    /\ pc = "start"
    /\ state_file \in StateFiles
    /\ ids \in SeqsUpTo({<<>>, IdA, IdB, IdUpperB}, MaxIdArgs)
    /\ loaded = Returned({})
    /\ previous_ids = {}
    /\ new_records = <<>>
    /\ removed_records = <<>>
    /\ updated_id_set = {}
    /\ output_records = <<>>
    /\ records = <<>>
    /\ CrawlIdle /\ ValidateIdle /\ RunIdle

\* load_state(path) on the file as found.
LoadState ==
    /\ pc = "start"
    /\ loaded' = load_state(state_file)
    /\ pc' = "loaded"
    /\ UNCHANGED <<state_file, ids, previous_ids, new_records, removed_records,
                   updated_id_set, output_records, records>>
    /\ UNCHANGED <<crawlVars, validateVars, runVars>>

\* save_state(path, ids): the file is replaced.
SaveState ==
    /\ pc = "start"
    /\ state_file' = save_state(ids)
    /\ pc' = "saved"
    /\ UNCHANGED <<ids, loaded, previous_ids, new_records, removed_records,
                   updated_id_set, output_records, records>>
    /\ UNCHANGED <<crawlVars, validateVars, runVars>>

\* load_state(path) right after save_state(path, ids).
LoadSavedState ==
    /\ pc = "saved"
    /\ loaded' = load_state(state_file)
    /\ pc' = "reloaded"
    /\ UNCHANGED <<state_file, ids, previous_ids, new_records, removed_records,
                   updated_id_set, output_records, records>>
    /\ UNCHANGED <<crawlVars, validateVars, runVars>>

StateNext == LoadState \/ SaveState \/ LoadSavedState

StateSpec == StateInit /\ [][StateNext]_vars

-----------------------------------------------------------------------------
(* Claims about load_state and save_state (StateSpec).                     *)

\* What the specification says load_state returns for a file.
ExpectedLoad(file) ==
    IF file.kind = "json" /\ file.data.t = "list"
    THEN {Str(file.data.items[n]) : n \in DOMAIN file.data.items}
    ELSE IF file.kind = "json" /\ file.data.t = "obj"
            /\ HasKey(file.data, KeyIds)
            /\ Member(file.data, KeyIds).t = "list"
    THEN LET l == Member(file.data, KeyIds).items
         IN  {Str(l[n]) : n \in DOMAIN l}
    ELSE {}

\* C6: load_state never propagates an error: an absent file gives the empty
\* set, a JSON list or an object with an "ids" list gives the set of the
\* elements as strings, and every other shape and every malformed or
\* unreadable file gives the empty set.
C6_LoadStateNeverFails ==
    pc = "loaded" =>
        /\ loaded.exc = "none"
        /\ loaded.ids = ExpectedLoad(state_file)

\* C7: save_state followed by load_state returns exactly the set of the IDs
\* passed, whatever their order and duplicates, and the file written is
\* {"ids": [sorted unique strings]}.
C7_SaveLoadRoundTrip ==
    pc = "reloaded" =>
        /\ loaded = Returned(Range(ids))
        /\ state_file.kind = "json"
        /\ state_file.data.t = "obj"
        /\ Len(state_file.data.members) = 1
        /\ state_file.data.members[1].k = KeyIds
        /\ LET l == state_file.data.members[1].val
           IN  /\ l.t = "list"
               /\ \A n \in DOMAIN l.items : l.items[n].t = "str"
               /\ {l.items[n].s : n \in DOMAIN l.items} = Range(ids)
               /\ \A m, n \in DOMAIN l.items :
                      m < n => StrLess(l.items[m].s, l.items[n].s)

\* IDs passed out of order and twice, written over a file of another shape.
C7_Witness ==
    /\ pc = "reloaded"
    /\ ids = <<IdB, IdA, IdB>>
    /\ loaded.ids = {IdA, IdB}

-----------------------------------------------------------------------------
(* DetectSpec: detect_changes on every bounded input.                      *)

UrlPrefix ==    \* "/energy-certificate/"
    <<47, 101, 110, 101, 114, 103, 121, 45, 99, 101, 114, 116, 105, 102,
      105, 99, 97, 116, 101, 47>>
Url1 == UrlPrefix \o <<49>>     \* "/energy-certificate/1"
Url2 == UrlPrefix \o <<50>>     \* "/energy-certificate/2"

DetectRecords == [id : {None, <<>>, IdA, IdB}, url : {Url1, Url2}]
DetectPreviousIds == SUBSET {<<>>, IdA, IdAB, IdB}

DetectInit ==
    /\ pc = "start"
    /\ records \in SeqsUpTo(DetectRecords, MaxRecords)
    /\ previous_ids \in DetectPreviousIds
    /\ state_file = Absent
    /\ ids = <<>>
    /\ loaded = Returned({})
    /\ new_records = <<>>
    /\ removed_records = <<>>
    /\ updated_id_set = {}
    /\ output_records = <<>>
    /\ CrawlIdle /\ ValidateIdle /\ RunIdle

\* new, removed, updated = detect_changes(records, previous_ids)
DetectChanges ==
    /\ pc = "start"
    /\ LET result == detect_changes(records, previous_ids)
       IN  /\ new_records' = result.new_records
           /\ removed_records' = result.removed_records
           /\ updated_id_set' = result.updated_id_set
    /\ pc' = "detected"
    /\ UNCHANGED <<state_file, ids, loaded, previous_ids, output_records,
                   records>>
    /\ UNCHANGED <<crawlVars, validateVars, runVars>>

DetectNext == DetectChanges

DetectSpec == DetectInit /\ [][DetectNext]_vars

HasId(rec) == rec.id # None /\ rec.id # <<>>
IdsOf(recs) == {recs[n].id : n \in {m \in DOMAIN recs : HasId(recs[m])}}
IdList(recs) == [n \in DOMAIN recs |-> recs[n].id]

\* C1: new_records is the sub-list, in input order, of the records whose id
\* is present and not in previous_ids; a record without an id is in neither
\* new_records nor the current-ID set; previous_ids = {} with records a, b
\* gives new_records = [a, b], removed_records = [], updated = {a, b}.
C1_NewRecords ==
    pc = "detected" =>
        /\ new_records =
               SelectSeq(records,
                         LAMBDA r : HasId(r) /\ r.id \notin previous_ids)
        /\ \A n \in DOMAIN new_records : HasId(new_records[n])
        /\ updated_id_set = previous_ids \cup IdsOf(records)
        /\ (previous_ids = {} /\ IdList(records) = <<IdA, IdB>>) =>
               /\ new_records = records
               /\ removed_records = <<>>
               /\ updated_id_set = {IdA, IdB}

\* A known record, a record without an id and a new record: only the new one
\* is reported.
C1_Witness ==
    /\ pc = "detected"
    /\ previous_ids = {IdA}
    /\ IdList(records) = <<IdA, None, IdB>>
    /\ Len(new_records) = 1
    /\ new_records[1].id = IdB

\* C2: removed_records holds exactly one stub {id, removed: true} for each
\* ID of previous_ids that is no ID of a current record, and nothing else,
\* in ascending order of ID; previous_ids = {a, b} with current records
\* [{id: a}] gives removed_records = [{id: b, removed: true}] and no new
\* record.
C2_RemovedRecords ==
    pc = "detected" =>
        /\ \A n \in DOMAIN removed_records :
               removed_records[n] = [id |-> removed_records[n].id,
                                     removed |-> TRUE]
        /\ {removed_records[n].id : n \in DOMAIN removed_records}
               = previous_ids \ IdsOf(records)
        /\ \A m, n \in DOMAIN removed_records :
               m < n => StrLess(removed_records[m].id, removed_records[n].id)
        /\ (previous_ids = {IdA, IdB} /\ IdList(records) = <<IdA>>) =>
               /\ removed_records = <<[id |-> IdB, removed |-> TRUE]>>
               /\ new_records = <<>>

\* Two IDs are gone: their stubs come in ascending order, "ab" before "b".
C2_Witness ==
    /\ pc = "detected"
    /\ previous_ids = {IdA, IdAB, IdB}
    /\ IdList(records) = <<IdA>>
    /\ removed_records = <<RemovedStub(IdAB), RemovedStub(IdB)>>

-----------------------------------------------------------------------------
(* deduplicate_records.  `seen` is a dict: its keys keep the order of their *)
(* first insertion, and an assignment to a key it holds replaces the value. *)

AnonymousPrefix ==     \* "anonymous-"
    <<97, 110, 111, 110, 121, 109, 111, 117, 115, 45>>
\* f"anonymous-{anonymous_counter}"
AnonymousId(n) == AnonymousPrefix \o Digits(n)

\* A plausible slip: seen.setdefault(rec_id, rec) keeps the first record.
DictSetKeepFirst(seen, rec) ==
    IF \E n \in DOMAIN seen : seen[n].id = rec.id THEN seen
    ELSE Append(seen, rec)

\* seen[rec_id] = rec, seen being the sequence of its values.
DictSet(seen, rec) ==
    IF \E n \in DOMAIN seen : seen[n].id = rec.id
    THEN [n \in DOMAIN seen |-> IF seen[n].id = rec.id THEN rec ELSE seen[n]]
    ELSE Append(seen, rec)

\* The loop: [seen, mutated], mutated being the input list's records after
\* `rec["id"] = rec_id` was applied to them in place.
RECURSIVE DedupLoop(_, _, _, _)
DedupLoop(recs, seen, anonymous_counter, mutated) ==
    IF recs = <<>> THEN [seen |-> seen, mutated |-> mutated]
    ELSE LET rec == Head(recs)
         IN  IF Falsy(rec.id)
             THEN LET named ==
                          [rec EXCEPT !.id = AnonymousId(anonymous_counter + 1)]
                  IN  DedupLoop(Tail(recs), DictSet(seen, named),
                                anonymous_counter + 1, Append(mutated, named))
             ELSE DedupLoop(Tail(recs), DictSet(seen, rec),
                            anonymous_counter, Append(mutated, rec))

\* [out |-> list(seen.values()), mutated |-> the argument after the call]
deduplicate_records(recs) ==
    LET loop == DedupLoop(recs, <<>>, 0, <<>>)
    IN  [out |-> loop.seen, mutated |-> loop.mutated]

-----------------------------------------------------------------------------
(* DedupSpec: deduplicate_records on every bounded input.                  *)

DedupRecords ==
    [id : {None, <<>>, IdA, AnonymousId(1)}, url : {Url1, Url2}]

DedupInit ==
    /\ pc = "start"
    /\ all_records \in SeqsUpTo(DedupRecords, MaxRecords)
    /\ records = <<>>
    /\ listing_urls = <<>>
    /\ url_idx = 0
    /\ certificate_urls = <<>>
    /\ cert_idx = 0
    /\ requests = <<>>
    /\ fetch_log = <<>>
    /\ TrackerIdle /\ ValidateIdle /\ RunIdle

\* records = deduplicate_records(records): the list's records are mutated.
Deduplicate ==
    /\ pc = "start"
    /\ LET result == deduplicate_records(all_records)
       IN  /\ records' = result.out
           /\ all_records' = result.mutated
    /\ pc' = "deduplicated"
    /\ UNCHANGED <<listing_urls, url_idx, certificate_urls, cert_idx, requests,
                   fetch_log>>
    /\ UNCHANGED <<trackerVars, validateVars, runVars>>

DedupNext == Deduplicate

DedupSpec == DedupInit /\ [][DedupNext]_vars

\* The number of records without an id among the first n of recs.
IdLessUpTo(recs, n) == Cardinality({m \in 1..n : ~HasId(recs[m])})

\* C8: after deduplicate_records no two output records share an id; of the
\* input records sharing an id only the last-seen one is in the output; every
\* record lacking an id was assigned anonymous-N, N counting the id-less
\* records in encounter order from 1.
C8_Deduplicate ==
    [][(pc = "start" /\ pc' = "deduplicated") =>
          /\ \A m, n \in DOMAIN records' :
                 records'[m].id = records'[n].id => m = n
          /\ Len(all_records') = Len(all_records)
          /\ \A n \in DOMAIN all_records :
                 /\ all_records'[n].url = all_records[n].url
                 /\ all_records'[n].id =
                        IF HasId(all_records[n]) THEN all_records[n].id
                        ELSE AnonymousId(IdLessUpTo(all_records, n))
          /\ {records'[m].id : m \in DOMAIN records'}
                 = {all_records'[n].id : n \in DOMAIN all_records'}
          /\ \A m \in DOMAIN records' :
                 LET last == CHOOSE n \in DOMAIN all_records' :
                                 /\ all_records'[n].id = records'[m].id
                                 /\ \A l \in DOMAIN all_records' :
                                        all_records'[l].id = records'[m].id
                                        => l <= n
                 IN  records'[m] = all_records'[last]
      ]_vars

\* Two records share "a" and two have no id: the later "a" record survives
\* and the id-less ones become anonymous-1 and anonymous-2.
C8_Witness ==
    /\ pc = "deduplicated"
    /\ Len(all_records) = 3
    /\ \E m, n \in DOMAIN records :
           /\ m < n
           /\ records[m].id = AnonymousId(1)
           /\ records[n].id = AnonymousId(2)
    /\ all_records[3].id = AnonymousId(2)

NaturalIds(recs) == {recs[n].id : n \in {m \in DOMAIN recs : HasId(recs[m])}}

\* C16: deduplicate_records returns as many records as its input has distinct
\* natural ids plus records without an id, an input with a natural id of the
\* form anonymous-N included.
C16_NoRecordLost ==
    [][(pc = "start" /\ pc' = "deduplicated") =>
           Len(records') = Cardinality(NaturalIds(all_records))
                               + IdLessUpTo(all_records, Len(all_records))
      ]_vars

\* The count is right whenever no natural id is one the counter hands out.
RecordCountWithoutCollision ==
    [][(/\ pc = "start" /\ pc' = "deduplicated"
        /\ \A n \in 1..Len(all_records) :
               AnonymousId(n) \notin NaturalIds(all_records)) =>
           Len(records') = Cardinality(NaturalIds(all_records))
                               + IdLessUpTo(all_records, Len(all_records))
      ]_vars

-----------------------------------------------------------------------------
(* validate_epc_record.  A record is [url, id, postCode, address, rating,  *)
(* validtillDate, expired].                                                *)

\* c.isspace() for the ASCII range: tab, LF, VT, FF, CR, FS..US, space.
IsSpace(c) == c \in (9..13) \cup (28..32)

\* str.strip()
RECURSIVE LStrip(_)
LStrip(s) == IF s # <<>> /\ IsSpace(s[1]) THEN LStrip(Tail(s)) ELSE s
RECURSIVE RStrip(_)
RStrip(s) ==
    IF s # <<>> /\ IsSpace(s[Len(s)]) THEN RStrip(SubSeq(s, 1, Len(s) - 1))
    ELSE s
Strip(s) == RStrip(LStrip(s))

\* str.upper() for the ASCII range.
Upper(s) == [n \in DOMAIN s |-> IF s[n] \in 97..122 THEN s[n] - 32 ELSE s[n]]

\* str.split(): the maximal runs of non-whitespace, in order.
RECURSIVE SplitLoop(_, _, _)
SplitLoop(s, word, parts) ==
    IF s = <<>> THEN IF word = <<>> THEN parts ELSE Append(parts, word)
    ELSE IF IsSpace(s[1])
         THEN SplitLoop(Tail(s), <<>>,
                        IF word = <<>> THEN parts ELSE Append(parts, word))
         ELSE SplitLoop(Tail(s), Append(word, s[1]), parts)
Split(s) == SplitLoop(s, <<>>, <<>>)

\* list("ABCDEFG")
Bands == {<<c>> : c \in 65..71}

MissingField(field) == "Missing required field '" \o field \o "'"
UnexpectedBand == "Unexpected rating band"
ExpiredMissing == "validtillDate present but expired flag missing"

\* The loop over required_fields.
RequiredErrors(rec) ==
    (IF Falsy(rec.url) THEN <<MissingField("url")>> ELSE <<>>)
    \o (IF Falsy(rec.id) THEN <<MissingField("id")>> ELSE <<>>)
    \o (IF Falsy(rec.postCode) THEN <<MissingField("postCode")>> ELSE <<>>)
    \o (IF Falsy(rec.address) THEN <<MissingField("address")>> ELSE <<>>)

\* parts = str(record["rating"]).strip().upper().split()
RatingParts(rating) == Split(Upper(Strip(rating)))

\* [exc, is_valid, errors]; parts[-1] of an empty list raises IndexError.
validate_epc_record(rec) ==
    LET required == RequiredErrors(rec)
        parts == RatingParts(rec.rating)
        band == parts[Len(parts)]
        expired_errors ==
            IF ~Falsy(rec.validtillDate) /\ rec.expired = None
            THEN <<ExpiredMissing>> ELSE <<>>
    IN  IF ~Falsy(rec.rating) /\ parts = <<>>
        THEN [exc |-> "IndexError", is_valid |-> FALSE, errors |-> <<>>]
        ELSE LET errors ==
                     required
                     \o (IF ~Falsy(rec.rating) /\ band \notin Bands
                         THEN <<UnexpectedBand>> ELSE <<>>)
                     \o expired_errors
             IN  [exc |-> "none", is_valid |-> errors = <<>>,
                  errors |-> errors]

-----------------------------------------------------------------------------
(* ValidateSpec: validate_epc_record on every bounded record.              *)

RatingChars == {32, 55, 67, 72, 99}      \* " ", "7", "C", "H", "c"
Ratings == {None} \cup SeqsUpTo(RatingChars, MaxRatingLen)
PostCode == <<83, 87, 49>>               \* "SW1"
ValidTill == <<50, 48, 51, 48>>          \* "2030"

ValidateRecords ==
    {[url |-> Url1, id |-> i, postCode |-> PostCode, address |-> PostCode,
      rating |-> r, validtillDate |-> d[1], expired |-> d[2]] :
        i \in {None, IdA}, r \in Ratings,
        d \in {<<None, None>>, <<ValidTill, None>>, <<ValidTill, PyFalse>>}}

ValidateInit ==
    /\ pc = "start"
    /\ record \in ValidateRecords
    /\ validation = [exc |-> "none", is_valid |-> TRUE, errors |-> <<>>]
    /\ records = <<>>
    /\ TrackerIdle /\ CrawlIdle /\ RunIdle

\* is_valid, errors = validate_epc_record(record)
Validate ==
    /\ pc = "start"
    /\ validation' = validate_epc_record(record)
    /\ pc' = "validated"
    /\ UNCHANGED <<record, records>>
    /\ UNCHANGED <<trackerVars, crawlVars, runVars>>

ValidateNext == Validate

ValidateSpec == ValidateInit /\ [][ValidateNext]_vars

\* The last whitespace-delimited token of s, <<>> when s has none.
LastToken(s) ==
    LET inked == {n \in DOMAIN s : ~IsSpace(s[n])}
    IN  IF inked = {} THEN <<>>
        ELSE LET e == CHOOSE n \in inked : \A m \in inked : m <= n
                 b == CHOOSE n \in 1..e :
                          /\ \A m \in n..e : m \in inked
                          /\ n = 1 \/ (n - 1) \notin inked
             IN  SubSeq(s, b, e)

\* A single letter A-G, in either case.
IsBandLetter(token) ==
    Len(token) = 1 /\ token[1] \in (65..71) \cup (97..103)

\* C10: for every rating string the rating check returns: it adds no error
\* when the last whitespace-delimited token is a single letter A-G, it adds
\* an error and validate returns false for any other trailing token, and it
\* never raises, strings made only of whitespace included.
C10_RatingCheck ==
    (pc = "validated" /\ record.rating # None) =>
        /\ validation.exc = "none"
        /\ IsBandLetter(LastToken(record.rating))
               => UnexpectedBand \notin Range(validation.errors)
        /\ (LastToken(record.rating) # <<>>
            /\ ~IsBandLetter(LastToken(record.rating)))
               => /\ UnexpectedBand \in Range(validation.errors)
                  /\ ~validation.is_valid

\* The rating check does as stated for every rating that holds a token.
RatingCheckWithToken ==
    (pc = "validated" /\ record.rating # None
     /\ LastToken(record.rating) # <<>>) => C10_RatingCheck

-----------------------------------------------------------------------------
(* normalize_record and is_expired.  A date string is parsed to the year   *)
(* it names; the clock is the year datetime.utcnow() returns.              *)

IsDigits(s) == s # <<>> /\ \A n \in DOMAIN s : s[n] \in 48..57
RECURSIVE Number(_)
Number(s) ==
    IF s = <<>> THEN 0 ELSE 10 * Number(SubSeq(s, 1, Len(s) - 1))
                            + (s[Len(s)] - 48)

\* parse_date: <<year>>, or <<>> for None (the parser raised ValueError).
parse_date(value) ==
    IF Falsy(value) THEN <<>>
    ELSE IF IsDigits(value) THEN <<Number(value)>> ELSE <<>>

is_expired(valid_till, now) ==
    IF Falsy(valid_till) THEN None
    ELSE LET dt == parse_date(valid_till)
         IN  IF dt = <<>> THEN None
             ELSE IF dt[1] < now THEN PyTrue ELSE PyFalse

\* The keys of `defaults`.
SchemaKeys ==
    {"url", "postCode", "locality", "address", "rating", "id",
     "propertyType", "floorArea", "currentScore", "potentialScore",
     "primaryUsage", "averageBill", "potentialSaving", "averageCostYear",
     "co2Produces", "co2Potential", "features", "changes", "assessorName",
     "assessorPhone", "assessorEmail", "accreditationScheme",
     "accreditationAssessorID", "accreditationPhone", "accreditationEmail",
     "assessmentDate", "certificateDate", "assessmentType", "validtillDate",
     "expired"}
\* defaults[key]: [] for the two list fields, None for the others.
Default(key) == IF key \in {"features", "changes"} THEN <<>> ELSE None

\* for key, default in defaults.items(): record.setdefault(key, default)
SetDefaults(rec) ==
    [key \in SchemaKeys \cup DOMAIN rec |->
        IF key \in DOMAIN rec THEN rec[key] ELSE Default(key)]

\* A plausible slip: expired is derived whether or not it is set.
normalize_record_rederive(rec, now) ==
    [SetDefaults(rec) EXCEPT
        !.expired = is_expired(SetDefaults(rec).validtillDate, now)]

\* A record is a function of the keys it holds.
normalize_record(rec, now) ==
    LET filled == SetDefaults(rec)
    IN  IF filled.expired = None
        THEN [filled EXCEPT !.expired = is_expired(filled.validtillDate, now)]
        ELSE filled

Clock == {2025, 2035}

-----------------------------------------------------------------------------
(* crawl_full.  A URL is written by its path on the service's origin.  The  *)
(* network and the pages are the crawl's input: each request's response is *)
(* chosen when the request is made.                                        *)

Slash == 47
StripSlashes(s) ==
    LET inner == {n \in DOMAIN s : s[n] # Slash}
    IN  IF inner = {} THEN <<>>
        ELSE SubSeq(s, CHOOSE n \in inner : \A m \in inner : n <= m,
                       CHOOSE n \in inner : \A m \in inner : m <= n)

Occurrences(s, sep) ==
    {n \in 1..(Len(s) - Len(sep) + 1) : SubSeq(s, n, n + Len(sep) - 1) = sep}

\* path.split("/energy-certificate/")[-1].strip("/") when the path holds the
\* separator, None (the key stays unset) otherwise.
IdFromUrl(url) ==
    LET at == Occurrences(url, UrlPrefix)
    IN  IF at = {} THEN None
        ELSE LET last == CHOOSE n \in at : \A m \in at : m <= n
             IN  StripSlashes(SubSeq(url, last + Len(UrlPrefix), Len(url)))

\* What the label extractor finds on a certificate page.
\* "number" is the text after the label "Certificate number".
GoodPage ==
    [number |-> None, postCode |-> PostCode, rating |-> <<67>>,
     validtillDate |-> None]
CertificatePages ==
    {GoodPage,
     [number |-> None, postCode |-> None, rating |-> <<55, 32, 72>>,
      validtillDate |-> <<110, 47, 97>>]}

\* The id: from the URL, else the first token after "Certificate number",
\* else what the URL gave (None, the key being unset, or "").
CertificateId(page, url) ==
    IF ~Falsy(IdFromUrl(url)) THEN IdFromUrl(url)
    ELSE IF ~Falsy(page.number) THEN Split(page.number)[1]
    ELSE IdFromUrl(url)

\* parse_certificate_page followed by record["url"] = cert_url.
parse_certificate_page(page, url) ==
    [url |-> url, id |-> CertificateId(page, url), postCode |-> page.postCode,
     address |-> page.postCode, rating |-> page.rating,
     validtillDate |-> page.validtillDate]

\* parse_listing_page: the anchors' absolute URLs, sorted.
parse_listing_page(links) == Sorted(links)

ListingUrlA == <<47, 97>>      \* "/a"
ListingUrlB == <<47, 98>>      \* "/b"
ListingUrls == {ListingUrlA, ListingUrlB}
CertificateUrls == {Url1, Url2}

\* A plausible slip: a record with validation problems is not kept.
AppendRecordIfValid(all, rec, is_valid) ==
    IF is_valid THEN Append(all, rec) ELSE all
\* all_records.append(record), whatever is_valid is.
AppendRecord(all, rec, is_valid) == Append(all, rec)

LogEntry(url, kind, fetched, raised, certs, rec, is_valid) ==
    [url |-> url, kind |-> kind, fetched |-> fetched, raised |-> raised,
     certs |-> certs, rec |-> rec, is_valid |-> is_valid]

CrawlInit ==
    /\ pc = "listing"
    /\ listing_urls \in SeqsUpTo(ListingUrls, MaxListings)
    /\ url_idx = 0
    /\ certificate_urls = <<>>
    /\ cert_idx = 0
    /\ requests = <<>>
    /\ fetch_log = <<>>
    /\ all_records = <<>>
    /\ records = <<>>
    /\ TrackerIdle /\ ValidateIdle /\ RunIdle

crawlFrame ==
    /\ UNCHANGED <<listing_urls, records>>
    /\ UNCHANGED <<trackerVars, validateVars, runVars>>

\* fetch_listing_page returns None: the listing is skipped.
ListingFetchFails ==
    /\ pc = "listing"
    /\ url_idx < Len(listing_urls)
    /\ LET url == listing_urls[url_idx + 1]
       IN  /\ requests' = Append(requests, url)
           /\ fetch_log' = Append(fetch_log,
                  LogEntry(url, "listing", FALSE, FALSE, <<>>, IdleRecord,
                           FALSE))
    /\ url_idx' = url_idx + 1
    /\ UNCHANGED <<pc, certificate_urls, cert_idx, all_records>>
    /\ crawlFrame

\* fetch_listing_page returns the page; parse_listing_page gives its links.
ListingFetched ==
    /\ pc = "listing"
    /\ url_idx < Len(listing_urls)
    /\ \E links \in SUBSET CertificateUrls :
           LET url == listing_urls[url_idx + 1]
               found == parse_listing_page(links)
           IN  /\ requests' = Append(requests, url)
               /\ fetch_log' = Append(fetch_log,
                      LogEntry(url, "listing", TRUE, FALSE, found, IdleRecord,
                               FALSE))
               /\ certificate_urls' = found
               /\ cert_idx' = 0
               /\ IF found = <<>>
                  THEN pc' = "listing" /\ url_idx' = url_idx + 1
                  ELSE pc' = "certificate" /\ url_idx' = url_idx
    /\ UNCHANGED all_records
    /\ crawlFrame

\* The inner loop moves on; after the last certificate, so does the outer.
NextCertificate ==
    /\ cert_idx' = cert_idx + 1
    /\ IF cert_idx + 1 = Len(certificate_urls)
       THEN pc' = "listing" /\ url_idx' = url_idx + 1
       ELSE pc' = "certificate" /\ url_idx' = url_idx
    /\ UNCHANGED certificate_urls

\* fetch_certificate returns None: the certificate is skipped.
CertificateFetchFails ==
    /\ pc = "certificate"
    /\ LET cert_url == certificate_urls[cert_idx + 1]
       IN  /\ requests' = Append(requests, cert_url)
           /\ fetch_log' = Append(fetch_log,
                  LogEntry(cert_url, "certificate", FALSE, FALSE, <<>>,
                           IdleRecord, FALSE))
    /\ NextCertificate
    /\ UNCHANGED all_records
    /\ crawlFrame

\* The try block raises (in parse_certificate_page, normalize_record or
\* validate_epc_record): logged, the certificate is skipped.
CertificateRaises ==
    /\ pc = "certificate"
    /\ LET cert_url == certificate_urls[cert_idx + 1]
       IN  /\ requests' = Append(requests, cert_url)
           /\ fetch_log' = Append(fetch_log,
                  LogEntry(cert_url, "certificate", TRUE, TRUE, <<>>,
                           IdleRecord, FALSE))
    /\ NextCertificate
    /\ UNCHANGED all_records
    /\ crawlFrame

\* The try block on a certificate's page: parse_certificate_page, the URL,
\* normalize_record at the clock's time, validate_epc_record.
Processed ==
    [page \in CertificatePages, cert_url \in CertificateUrls, now \in Clock |->
        LET rec == normalize_record(parse_certificate_page(page, cert_url), now)
        IN  [record |-> rec, checked |-> validate_epc_record(rec)]]

\* The page is parsed, normalized and validated; the record is appended.
CertificateParsed ==
    /\ pc = "certificate"
    /\ \E page \in CertificatePages, now \in Clock :
           LET cert_url == certificate_urls[cert_idx + 1]
               rec == Processed[page, cert_url, now].record
               checked == Processed[page, cert_url, now].checked
           IN  /\ checked.exc = "none"
               /\ requests' = Append(requests, cert_url)
               /\ fetch_log' = Append(fetch_log,
                      LogEntry(cert_url, "certificate", TRUE, FALSE, <<>>, rec,
                               checked.is_valid))
               /\ all_records' = AppendRecord(all_records, rec,
                                              checked.is_valid)
    /\ NextCertificate
    /\ crawlFrame

\* return all_records
CrawlReturn ==
    /\ pc = "listing"
    /\ url_idx = Len(listing_urls)
    /\ pc' = "done"
    /\ UNCHANGED <<url_idx, certificate_urls, cert_idx, requests, fetch_log,
                   all_records>>
    /\ crawlFrame

CrawlNext ==
    \/ ListingFetchFails
    \/ ListingFetched
    \/ CertificateFetchFails
    \/ CertificateRaises
    \/ CertificateParsed
    \/ CrawlReturn

\* The crawl is one sequential loop and every request has a timeout: a step
\* that can be taken is taken.
CrawlSpec == CrawlInit /\ [][CrawlNext]_vars /\ WF_vars(CrawlNext)

-----------------------------------------------------------------------------
(* Claims about crawl_full (CrawlSpec).                                    *)

RECURSIVE Flatten(_)
Flatten(ss) == IF ss = <<>> THEN <<>> ELSE Head(ss) \o Flatten(Tail(ss))

IsListing(e) == e.kind = "listing"
IsKept(e) == e.kind = "certificate" /\ e.fetched /\ ~e.raised
ListingEntries == SelectSeq(fetch_log, IsListing)

\* The requests the listings fetched so far call for: each listing URL, and
\* after it the certificate URLs its page gave.
RequestPlan ==
    Flatten([n \in DOMAIN ListingEntries |->
                <<ListingEntries[n].url>> \o ListingEntries[n].certs])
KindPlan ==
    Flatten([n \in DOMAIN ListingEntries |->
                <<"listing">> \o [m \in DOMAIN ListingEntries[n].certs |->
                                     "certificate"]])

IsPrefix(s, t) == Len(s) <= Len(t) /\ s = SubSeq(t, 1, Len(s))

CrawlInOrder ==
    /\ requests = [n \in DOMAIN fetch_log |-> fetch_log[n].url]
    /\ [n \in DOMAIN ListingEntries |-> ListingEntries[n].url]
           = SubSeq(listing_urls, 1, Len(ListingEntries))
    /\ IsPrefix(requests, RequestPlan)
    /\ [n \in DOMAIN fetch_log |-> fetch_log[n].kind]
           = SubSeq(KindPlan, 1, Len(fetch_log))
    /\ \A n \in DOMAIN fetch_log :
           (IsListing(fetch_log[n]) /\ ~fetch_log[n].fetched)
               => fetch_log[n].certs = <<>>
    /\ pc = "done" =>
           /\ Len(ListingEntries) = Len(listing_urls)
           /\ requests = RequestPlan

CrawlKeepsParsed ==
    LET kept == SelectSeq(fetch_log, IsKept)
    IN  all_records = [n \in DOMAIN kept |-> kept[n].rec]

\* C9: the listing URLs are requested one at a time in input order and each
\* listing's certificate URLs one at a time after it, each once; a listing or
\* certificate without content and a certificate whose processing raises is
\* skipped and the crawl goes on; every certificate fetched and processed
\* without an exception is in the result once per fetch, validation errors
\* or not; and the crawl ends after the last listing URL.
C9_Crawl ==
    /\ [](CrawlInOrder /\ CrawlKeepsParsed)
    /\ <>(pc = "done")

\* A failed listing is followed by a fetched one, of whose two certificates
\* one failed to load and the other is kept with validation errors.
C9_Witness ==
    /\ pc = "done"
    /\ Len(fetch_log) = 4
    /\ IsListing(fetch_log[1]) /\ ~fetch_log[1].fetched
    /\ IsListing(fetch_log[2]) /\ fetch_log[2].certs = <<Url1, Url2>>
    /\ ~fetch_log[3].fetched
    /\ IsKept(fetch_log[4]) /\ ~fetch_log[4].is_valid
    /\ Len(all_records) = 1
    /\ all_records[1].url = Url2

-----------------------------------------------------------------------------
(* RunsSpec: runs of run_from_config, one after the other, on one state     *)
(* file that nothing else writes.  What a run's crawl returns is the run's  *)
(* input (crawl_full itself is CrawlSpec).                                  *)

\* A record as crawl_full appends it.
CrawledRecord(url) ==
    normalize_record(parse_certificate_page(GoodPage, url),
                     CHOOSE now \in Clock : TRUE)
\* Certificates 1 and 2, and one whose URL and page give no id.
CrawledRecords ==
    {CrawledRecord(Url1), CrawledRecord(Url2), CrawledRecord(UrlPrefix)}

\* The file before the first run: none, a legacy list, one that cannot be
\* parsed, one whose "ids" is no list.
FirstStateFiles ==
    {Absent, JsonFile(JList(<<JStr(IdFromUrl(Url1))>>)), Malformed,
     JsonFile(JObj(<<[k |-> KeyIds, val |-> JInt(7)]>>))}

RunsInit ==
    /\ pc = "idle"
    /\ state_file \in FirstStateFiles
    /\ ids = <<>>
    /\ loaded = Returned({})
    /\ previous_ids = {}
    /\ new_records = <<>>
    /\ removed_records = <<>>
    /\ updated_id_set = {}
    /\ output_records = <<>>
    /\ records = <<>>
    /\ CrawlIdle /\ ValidateIdle /\ RunIdle

runFrame ==
    UNCHANGED <<listing_urls, url_idx, certificate_urls, cert_idx, requests,
                fetch_log, validateVars, args, exit_code, events>>

\* run_from_config starts, its locals unset: the mode is the config's, or
\* the flag's.
RunStart ==
    /\ pc = "idle"
    /\ run_no < MaxRuns
    /\ run_no' = run_no + 1
    /\ monitoring_mode' \in BOOLEAN
    /\ pc' = "crawl"
    /\ ids' = <<>>
    /\ loaded' = Returned({})
    /\ previous_ids' = {}
    /\ new_records' = <<>>
    /\ removed_records' = <<>>
    /\ updated_id_set' = {}
    /\ output_records' = <<>>
    /\ all_records' = <<>>
    /\ records' = <<>>
    /\ UNCHANGED <<state_file, history>>
    /\ runFrame

\* records = crawl_full(listing_urls, parser)
RunCrawl ==
    /\ pc = "crawl"
    /\ all_records' \in SeqsUpTo(CrawledRecords, MaxCrawled)
    /\ pc' = "deduplicate"
    /\ UNCHANGED <<trackerVars, records, run_no, monitoring_mode, history>>
    /\ runFrame

\* records = deduplicate_records(records)
RunDeduplicate ==
    /\ pc = "deduplicate"
    /\ LET result == deduplicate_records(all_records)
       IN  /\ records' = result.out
           /\ all_records' = result.mutated
    /\ pc' = IF monitoring_mode THEN "load" ELSE "full"
    /\ UNCHANGED <<trackerVars, run_no, monitoring_mode, history>>
    /\ runFrame

\* previous_ids = load_state(state_file); an exception ends the run.
RunLoadState ==
    /\ pc = "load"
    /\ loaded' = load_state(state_file)
    /\ IF loaded'.exc = "none"
       THEN previous_ids' = loaded'.ids /\ pc' = "detect"
       ELSE previous_ids' = previous_ids /\ pc' = "idle"
    /\ UNCHANGED <<state_file, ids, new_records, removed_records,
                   updated_id_set, output_records, all_records, records,
                   runVars>>
    /\ runFrame

\* detect_changes(records, previous_ids); output_records = new + removed
RunDetectChanges ==
    /\ pc = "detect"
    /\ LET result == detect_changes(records, previous_ids)
       IN  /\ new_records' = result.new_records
           /\ removed_records' = result.removed_records
           /\ updated_id_set' = result.updated_id_set
           /\ output_records' = result.new_records \o result.removed_records
    /\ pc' = "save"
    /\ UNCHANGED <<state_file, ids, loaded, previous_ids, all_records,
                   records, runVars>>
    /\ runFrame

\* save_state(state_file, updated_id_set): a set is iterated in some order,
\* here the sorted one.
RunSaveState ==
    /\ pc = "save"
    /\ ids' = Sorted(updated_id_set)
    /\ state_file' = save_state(ids')
    /\ pc' = "export"
    /\ UNCHANGED <<loaded, previous_ids, new_records, removed_records,
                   updated_id_set, output_records, all_records, records,
                   runVars>>
    /\ runFrame

\* output_records = records, in full scrape mode.
RunFullMode ==
    /\ pc = "full"
    /\ output_records' = records
    /\ pc' = "export"
    /\ UNCHANGED <<state_file, ids, loaded, previous_ids, new_records,
                   removed_records, updated_id_set, all_records, records,
                   runVars>>
    /\ runFrame

\* export_all(records=output_records, ...); return 0
RunExport ==
    /\ pc = "export"
    /\ history' =
           IF monitoring_mode
           THEN [new |-> history.new
                          \cup {new_records[n].id : n \in DOMAIN new_records},
                 removed |-> history.removed
                          \cup {removed_records[n].id :
                                   n \in DOMAIN removed_records}]
           ELSE history
    /\ pc' = "idle"
    /\ UNCHANGED <<trackerVars, all_records, records, run_no,
                   monitoring_mode>>
    /\ runFrame

RunsNext ==
    \/ RunStart
    \/ RunCrawl
    \/ RunDeduplicate
    \/ RunLoadState
    \/ RunDetectChanges
    \/ RunSaveState
    \/ RunFullMode
    \/ RunExport

RunsSpec == RunsInit /\ [][RunsNext]_vars

-----------------------------------------------------------------------------
(* Claims about monitoring runs (RunsSpec).                                *)

\* The ID set the state file holds for the next run.
PersistedIds == load_state(state_file).ids
NewIds == {new_records[n].id : n \in DOMAIN new_records}
RemovedNow == {removed_records[n].id : n \in DOMAIN removed_records}
\* A monitoring run has compared its crawl with the state.
Compared == monitoring_mode /\ pc \in {"save", "export"}

\* C3: the ID set a monitoring run persists is the union of the set it
\* loaded and the IDs of its current records; the first run of a system
\* without a state file loads the empty set; and no step of any run takes
\* an ID out of the persisted set.
C3_PersistedUnion ==
    /\ []((monitoring_mode /\ pc = "export") =>
              /\ load_state(state_file) = Returned(previous_ids
                                                   \cup IdsOf(records))
              /\ loaded.ids = previous_ids)
    /\ []((pc = "detect" /\ state_file = Absent) => previous_ids = {})
    /\ [][PersistedIds \subseteq PersistedIds']_vars

\* A second monitoring run has added certificate 2 to a state that held 1.
C3_Witness ==
    /\ monitoring_mode /\ pc = "export"
    /\ run_no = 2
    /\ previous_ids = {IdFromUrl(Url1)}
    /\ IdsOf(records) = {IdFromUrl(Url2)}
    /\ PersistedIds = {IdFromUrl(Url1), IdFromUrl(Url2)}

\* C4 as stated: an ID an earlier run reported as removed, back in the crawl
\* of a later monitoring run, is in that run's new_records.
C4_ReappearedIsNew ==
    Compared => \A id \in history.removed \cap IdsOf(records) : id \in NewIds

\* C4 as the code has it: an ID an earlier run reported as removed, back in
\* the crawl of a later monitoring run, is still in the state that run
\* loads, so the run reports it neither as new nor as removed.
C4_ReappearedIsNotNew ==
    Compared =>
        \A id \in history.removed \cap IdsOf(records) :
            /\ id \in previous_ids
            /\ id \notin NewIds
            /\ id \notin RemovedNow

\* Certificate 1, reported removed by an earlier run, is crawled again.
C4_Witness ==
    /\ Compared
    /\ IdFromUrl(Url1) \in history.removed
    /\ IdFromUrl(Url1) \in IdsOf(records)
    /\ new_records = <<>>

\* C5 as stated: an ID a run reported as removed is not reported as removed
\* again by a later run in which it is still absent from the crawl.
C5_RemovalFlaggedOnce ==
    Compared => \A id \in history.removed \ IdsOf(records) : id \notin RemovedNow

\* C5 as the code has it: the removed ID stays in the state, so every later
\* monitoring run in which it is still absent from the crawl reports it as
\* removed again.
C5_RemovalFlaggedAgain ==
    Compared => \A id \in history.removed \ IdsOf(records) : id \in RemovedNow

\* Certificate 1, reported removed by an earlier run, is absent again.
C5_Witness ==
    /\ Compared
    /\ IdFromUrl(Url1) \in history.removed
    /\ IdFromUrl(Url1) \notin IdsOf(records)
    /\ RemovedStub(IdFromUrl(Url1)) \in Range(removed_records)

\* C15: an ID a finished monitoring run reported as new is not reported as
\* new by any later run, whether the certificate was gone in between or not.
C15_NewAtMostOnce ==
    Compared => NewIds \cap history.new = {}

\* Certificate 1 was reported new by the first run, removed by the second,
\* and is back in the crawl of the third, which reports 2 as new, not 1.
C15_Witness ==
    /\ Compared
    /\ run_no = 3
    /\ IdFromUrl(Url1) \in history.new \cap history.removed
    /\ IdsOf(records) = {IdFromUrl(Url1), IdFromUrl(Url2)}
    /\ NewIds = {IdFromUrl(Url2)}

-----------------------------------------------------------------------------
(* NormalizeSpec: normalize_record on a record, and again on its result,   *)
(* each time at whatever the clock then says.                              *)

NoKeys == [key \in {} |-> None]
\* The records that hold `key` with one of `values`, and the one without it.
Optional(key, values) == {NoKeys} \cup {(key :> v) : v \in values}

OneFeature ==      \* [{"name": "W", "description": None, "rating": None}]
    <<[name |-> <<87>>, description |-> None, rating |-> None]>>
Unparseable == <<110, 47, 97>>      \* "n/a"

NormalizeRecords ==
    {d @@ x @@ f @@ r :
        d \in Optional("validtillDate", {None, <<>>, ValidTill, Unparseable}),
        x \in Optional("expired", {None, PyTrue, PyFalse}),
        f \in Optional("features", {<<>>, OneFeature}),
        r \in Optional("rating", {<<67>>})}

NormalizeInit ==
    /\ pc = "start"
    /\ record \in NormalizeRecords
    /\ validation = [exc |-> "none", is_valid |-> TRUE, errors |-> <<>>]
    /\ records = <<>>
    /\ TrackerIdle /\ CrawlIdle /\ RunIdle

\* record = normalize_record(record)
Normalize ==
    /\ pc = "start"
    /\ \E now \in Clock : record' = normalize_record(record, now)
    /\ pc' = "normalized"
    /\ UNCHANGED <<validation, records>>
    /\ UNCHANGED <<trackerVars, crawlVars, runVars>>

\* record = normalize_record(record), on the record already normalized
NormalizeAgain ==
    /\ pc = "normalized"
    /\ \E now \in Clock : record' = normalize_record(record, now)
    /\ pc' = "normalized twice"
    /\ UNCHANGED <<validation, records>>
    /\ UNCHANGED <<trackerVars, crawlVars, runVars>>

NormalizeNext == Normalize \/ NormalizeAgain

NormalizeSpec == NormalizeInit /\ [][NormalizeNext]_vars

\* rec.get(key)
Get(rec, key) == IF key \in DOMAIN rec THEN rec[key] ELSE None

DateMissingOrUnparseable(rec) ==
    \/ Get(rec, "validtillDate") \in {None, <<>>}
    \/ parse_date(Get(rec, "validtillDate")) = <<>>

-----------------------------------------------------------------------------
(* MainSpec: one run of main, from parse_args to the exit of the process.   *)
(* The crawl is CrawlSpec's actions on the URLs the input file gave; an     *)
(* interrupt can arrive between any two steps of run_from_config.           *)

Argvs ==
    {<<>>, <<"--full">>, <<"--monitor">>, <<"--full", "--monitor">>, <<"-h">>}

\* parser.parse_args(argv): -h prints the help and exits with 0, two options
\* of the mutually exclusive group are a usage error, which exits with 2;
\* else the Namespace (exit is -1).
parse_args(argv) ==
    LET full == "--full" \in Range(argv)
        monitor == "--monitor" \in Range(argv)
    IN  IF "-h" \in Range(argv)
        THEN [exit |-> 0, full |-> FALSE, monitor |-> FALSE]
        ELSE IF full /\ monitor
             THEN [exit |-> 2, full |-> FALSE, monitor |-> FALSE]
             ELSE [exit |-> -1, full |-> full, monitor |-> monitor]

\* monitoring_mode = config.get("monitoring", False), then the two flags.
MonitoringMode(config_monitoring, a) ==
    LET forced == IF a.full THEN FALSE ELSE config_monitoring
    IN  IF a.monitor THEN TRUE ELSE forced

\* A plausible slip: the test for an empty input is left out.
NoListingUrlsNever(urls) == FALSE
\* if not listing_urls
NoListingUrls(urls) == urls = <<>>

\* A plausible slip: every exception main catches gives 1.
ExitCodeAlwaysOne(exception) == 1
\* main's two except clauses
ExitCode(exception) == IF exception = "KeyboardInterrupt" THEN 130 ELSE 1

\* A plausible slip: the state is compared in every mode.
AfterDeduplicateAlwaysLoad(monitoring) == "load"
\* if monitoring_mode: ... else: ...
AfterDeduplicate(monitoring) == IF monitoring THEN "load" ELSE "full"

\* What load_input_urls returns: no URL, or one listing.
InputUrls == {<<>>, <<ListingUrlA>>}

\* The statements of run_from_config's body an interrupt can end.
RunPcs ==
    {"config", "input", "listing", "certificate", "done", "load", "detect",
     "save", "full", "export"}

MainInit ==
    /\ pc = "main"
    /\ state_file \in FirstStateFiles
    /\ ids = <<>>
    /\ loaded = Returned({})
    /\ previous_ids = {}
    /\ new_records = <<>>
    /\ removed_records = <<>>
    /\ updated_id_set = {}
    /\ output_records = <<>>
    /\ records = <<>>
    /\ CrawlIdle /\ ValidateIdle /\ RunIdle

\* The process ends with `code`, `event` being the last thing it did.
Exit(code, event) ==
    /\ pc' = "exited"
    /\ exit_code' = code
    /\ events' = Append(events, event)

mainFrame ==
    UNCHANGED <<validateVars, run_no, history, url_idx, certificate_urls,
                cert_idx, requests, fetch_log>>

\* args = parser.parse_args(argv)
ParseArgs ==
    /\ pc = "main"
    /\ \E argv \in Argvs :
           LET parsed == parse_args(argv)
           IN  IF parsed.exit = -1
               THEN /\ args' = [full |-> parsed.full,
                                monitor |-> parsed.monitor]
                    /\ pc' = "config"
                    /\ UNCHANGED <<exit_code, events>>
               ELSE /\ Exit(parsed.exit,
                            IF parsed.exit = 0 THEN "help" ELSE "usage error")
                    /\ UNCHANGED args
    /\ UNCHANGED <<trackerVars, listing_urls, all_records, records,
                   monitoring_mode>>
    /\ mainFrame

\* config = load_config(config_path), and the mode the run is in
LoadConfig ==
    /\ pc = "config"
    /\ \E exists \in BOOLEAN, config_monitoring \in BOOLEAN :
           IF exists
           THEN /\ monitoring_mode' = MonitoringMode(config_monitoring, args)
                /\ events' = Append(events, "config")
                /\ pc' = "input"
                /\ UNCHANGED exit_code
           ELSE /\ Exit(ExitCode("FileNotFoundError"), "no config file")
                /\ UNCHANGED monitoring_mode
    /\ UNCHANGED <<trackerVars, listing_urls, all_records, records, args>>
    /\ mainFrame

\* listing_urls = load_input_urls(input_file); if not listing_urls: return 1
LoadInputUrls ==
    /\ pc = "input"
    /\ \E exists \in BOOLEAN, urls \in InputUrls :
           IF exists
           THEN /\ listing_urls' = urls
                /\ IF NoListingUrls(urls)
                   THEN Exit(1, "no listing URLs")
                   ELSE /\ pc' = "listing"
                        /\ events' = Append(events, "input")
                        /\ UNCHANGED exit_code
           ELSE /\ Exit(ExitCode("FileNotFoundError"), "no input file")
                /\ UNCHANGED listing_urls
    /\ UNCHANGED <<trackerVars, all_records, records, args, monitoring_mode>>
    /\ mainFrame

\* records = deduplicate_records(records), after crawl_full returned
MainDeduplicate ==
    /\ pc = "done"
    /\ LET result == deduplicate_records(all_records)
       IN  /\ records' = result.out
           /\ all_records' = result.mutated
    /\ pc' = AfterDeduplicate(monitoring_mode)
    /\ events' = Append(events, "deduplicated")
    /\ UNCHANGED <<trackerVars, listing_urls, args, monitoring_mode,
                   exit_code>>
    /\ mainFrame

\* previous_ids = load_state(state_file)
MainLoadState ==
    /\ pc = "load"
    /\ loaded' = load_state(state_file)
    /\ IF loaded'.exc = "none"
       THEN /\ previous_ids' = loaded'.ids
            /\ pc' = "detect"
            /\ events' = Append(events, "read state")
            /\ UNCHANGED exit_code
       ELSE /\ previous_ids' = previous_ids
            /\ pc' = "exited"
            /\ exit_code' = ExitCode(loaded'.exc)
            /\ events' = events \o <<"read state", "load_state raised">>
    /\ UNCHANGED <<state_file, ids, new_records, removed_records,
                   updated_id_set, output_records, listing_urls, all_records,
                   records, args, monitoring_mode>>
    /\ mainFrame

\* detect_changes(records, previous_ids); output_records = new + removed
MainDetectChanges ==
    /\ pc = "detect"
    /\ LET result == detect_changes(records, previous_ids)
       IN  /\ new_records' = result.new_records
           /\ removed_records' = result.removed_records
           /\ updated_id_set' = result.updated_id_set
           /\ output_records' = result.new_records \o result.removed_records
    /\ pc' = "save"
    /\ UNCHANGED <<state_file, ids, loaded, previous_ids, listing_urls,
                   all_records, records, args, monitoring_mode, exit_code,
                   events>>
    /\ mainFrame

\* save_state(state_file, updated_id_set)
MainSaveState ==
    /\ pc = "save"
    /\ ids' = Sorted(updated_id_set)
    /\ state_file' = save_state(ids')
    /\ pc' = "export"
    /\ events' = Append(events, "write state")
    /\ UNCHANGED <<loaded, previous_ids, new_records, removed_records,
                   updated_id_set, output_records, listing_urls, all_records,
                   records, args, monitoring_mode, exit_code>>
    /\ mainFrame

\* output_records = records
MainFullMode ==
    /\ pc = "full"
    /\ output_records' = records
    /\ pc' = "export"
    /\ UNCHANGED <<state_file, ids, loaded, previous_ids, new_records,
                   removed_records, updated_id_set, listing_urls, all_records,
                   records, args, monitoring_mode, exit_code, events>>
    /\ mainFrame

\* export_all(records=output_records, ...); return 0
MainExport ==
    /\ pc = "export"
    /\ Exit(0, "export")
    /\ UNCHANGED <<trackerVars, listing_urls, all_records, records, args,
                   monitoring_mode>>
    /\ mainFrame

\* export_all raises, some of the files perhaps written: main's safety net
MainExportFails ==
    /\ pc = "export"
    /\ Exit(ExitCode("OSError"), "export failed")
    /\ UNCHANGED <<trackerVars, listing_urls, all_records, records, args,
                   monitoring_mode>>
    /\ mainFrame

\* KeyboardInterrupt in run_from_config, crawl_full's loops included
Interrupt ==
    /\ pc \in RunPcs
    /\ Exit(ExitCode("KeyboardInterrupt"), "KeyboardInterrupt")
    /\ UNCHANGED <<trackerVars, crawlVars, records, args, monitoring_mode>>
    /\ UNCHANGED <<validateVars, run_no, history>>

MainNext ==
    \/ ParseArgs
    \/ LoadConfig
    \/ LoadInputUrls
    \/ ListingFetchFails
    \/ ListingFetched
    \/ CertificateFetchFails
    \/ CertificateRaises
    \/ CertificateParsed
    \/ CrawlReturn
    \/ MainDeduplicate
    \/ MainLoadState
    \/ MainDetectChanges
    \/ MainSaveState
    \/ MainFullMode
    \/ MainExport
    \/ MainExportFails
    \/ Interrupt

MainSpec == MainInit /\ [][MainNext]_vars

-----------------------------------------------------------------------------
(* Claims about main (MainSpec).                                           *)

LastEvent == IF events = <<>> THEN "none" ELSE events[Len(events)]
Errors ==
    {"no config file", "no input file", "no listing URLs",
     "load_state raised", "export failed"}
IsStateRead(e) == e = "read state"
IsStateWrite(e) == e = "write state"
IsExport(e) == e \in {"export", "export failed"}
StateReads == Len(SelectSeq(events, IsStateRead))
StateWrites == Len(SelectSeq(events, IsStateWrite))
Exports == Len(SelectSeq(events, IsExport))

\* The run returned 1 at `if not listing_urls`: nothing was fetched, the
\* state file was not touched and nothing was exported.
NoUrlsRun ==
    (pc = "exited" /\ "config" \in Range(events) /\ listing_urls = <<>>
        /\ LastEvent # "no input file" /\ LastEvent # "KeyboardInterrupt")
      => /\ exit_code = 1
         /\ events = <<"config", "no listing URLs">>
         /\ requests = <<>>
         /\ StateReads = 0 /\ StateWrites = 0 /\ Exports = 0

\* C12 as stated: every run of main ends with 0, 1 or 130, 0 being the
\* code of a run that completed the export; a run that returns 1 for want
\* of listing URLs fetched nothing, left the state file alone and exported
\* nothing.
C12_ThreeExitCodes ==
    /\ pc = "exited" =>
           /\ exit_code \in {0, 1, 130}
           /\ LastEvent = "export" => exit_code = 0
    /\ NoUrlsRun

\* C12, amended: a run ends with 0 when it completed the export or printed
\* the help, with 2 when parse_args rejected the command line (both before
\* anything was read, fetched or written), with 1 when the config or input
\* file is missing, the input gives no listing URL or another error reaches
\* main, and with 130 when run_from_config was interrupted; a run that
\* returns 1 for want of listing URLs fetched nothing, left the state file
\* alone and exported nothing.
C12_ExitCodes ==
    /\ pc = "exited" =>
           /\ exit_code \in {0, 1, 2, 130}
           /\ exit_code = 0 <=> LastEvent \in {"export", "help"}
           /\ exit_code = 2 <=> LastEvent = "usage error"
           /\ exit_code = 1 <=> LastEvent \in Errors
           /\ exit_code = 130 <=> LastEvent = "KeyboardInterrupt"
           /\ LastEvent \in {"help", "usage error"} =>
                  Len(events) = 1 /\ requests = <<>>
    /\ pc # "exited" => exit_code = -1
    /\ NoUrlsRun

\* A monitoring run on an input without listing URLs has returned 1.
C12_Witness ==
    /\ pc = "exited"
    /\ exit_code = 1
    /\ LastEvent = "no listing URLs"
    /\ monitoring_mode
    /\ args.monitor
    /\ state_file # Absent

\* C13: nothing is exported and the state file is not written before the
\* crawl has returned and its records are deduplicated; the state file
\* changes only by that write; and a run interrupted in the crawl exits
\* with 130, the state file as it was and nothing exported.
C13_ExportAfterCrawl ==
    /\ [](/\ \A n \in DOMAIN events :
                 (IsStateWrite(events[n]) \/ IsExport(events[n]))
                     => \E m \in 1..(n - 1) : events[m] = "deduplicated"
          /\ "deduplicated" \in Range(events) =>
                 /\ pc \notin {"main", "config", "input", "listing",
                               "certificate", "done"}
                 /\ url_idx = Len(listing_urls))
    /\ [][/\ state_file' # state_file =>
                 /\ "deduplicated" \in Range(events)
                 /\ events' = Append(events, "write state")
          /\ (pc \in {"listing", "certificate"} /\ pc' = "exited") =>
                 /\ exit_code' = 130
                 /\ state_file' = state_file
                 /\ StateWrites' = 0 /\ Exports' = 0
         ]_vars

\* A monitoring run was interrupted after its crawl had gathered a record:
\* the state file is the one the run found, and nothing was exported.
C13_Witness ==
    /\ pc = "exited"
    /\ exit_code = 130
    /\ monitoring_mode
    /\ Len(all_records) = 1
    /\ cert_idx = 1 /\ Len(certificate_urls) = 2
    /\ state_file = Absent
    /\ events = <<"config", "input", "KeyboardInterrupt">>

\* Only the loading of the config and of the input precedes the read.
ReadAtStart ==
    \A n \in DOMAIN events :
        IsStateRead(events[n]) =>
            \A m \in 1..(n - 1) : events[m] \in {"config", "input"}
ReadBeforeWrite ==
    \A n \in DOMAIN events :
        IsStateWrite(events[n]) =>
            \E m \in 1..(n - 1) : IsStateRead(events[m])

\* C14 as stated: a run in monitoring mode reads the state file exactly
\* once, at the start of the run, and writes it exactly once, after the
\* read; a run that is not in monitoring mode does neither.
C14_ReadOnceWriteOnce ==
    (pc = "exited" /\ "config" \in Range(events)) =>
        IF monitoring_mode
        THEN /\ StateReads = 1 /\ StateWrites = 1
             /\ ReadBeforeWrite
             /\ ReadAtStart
        ELSE StateReads = 0 /\ StateWrites = 0

\* C14, amended: a run in monitoring mode that completes reads the state
\* file exactly once, after the crawl and the deduplication, and writes it
\* exactly once, after the read and before the export; a monitoring run
\* that ends earlier has read it at most once and written it at most once,
\* never without the read; a run that is not in monitoring mode does
\* neither.
C14_StateFileAccess ==
    /\ StateReads <= 1 /\ StateWrites <= 1
    /\ ReadBeforeWrite
    /\ \A n \in DOMAIN events :
           /\ IsStateRead(events[n]) =>
                  \E m \in 1..(n - 1) : events[m] = "deduplicated"
           /\ IsExport(events[n]) =>
                  \A m \in DOMAIN events : IsStateWrite(events[m]) => m < n
    /\ (pc = "exited" /\ LastEvent \in {"export", "export failed"}) =>
           IF monitoring_mode
           THEN StateReads = 1 /\ StateWrites = 1
           ELSE StateReads = 0 /\ StateWrites = 0
    /\ ~monitoring_mode => StateReads = 0 /\ StateWrites = 0

\* A monitoring run on a state file with one ID has crawled another, read
\* the file, written both IDs, and exported.
C14_Witness ==
    /\ pc = "exited"
    /\ exit_code = 0
    /\ monitoring_mode
    /\ events = <<"config", "input", "deduplicated", "read state",
                  "write state", "export">>
    /\ previous_ids # {}
    /\ Len(new_records) = 1
    /\ state_file = save_state(Sorted(updated_id_set))

====
